---- MODULE Spec2Model ----
(***************************************************************************)
(* Staged-deployment pipeline of nebari: stage discovery and ordering      *)
(* (get_available_stages), the lifecycle methods of NebariTerraformStage   *)
(* (render, input_vars, state_imports, deploy, check, destroy) and the     *)
(* deploy / destroy runs that drive the ordered stage list.                *)
(***************************************************************************)
EXTENDS Integers, Sequences, FiniteSets, TLC

\* ------------------------------------------------------------------ bounds
MaxStages == 3

\* ------------------------------------------------- input sets of the model
Names == {"infra", "kubernetes", "keycloak"}
Priorities == {5, 10, 20}
Outputs == {"outA", "outB"}
ImportLists == { <<>>,
                 << <<"addr1", "id1">>, <<"addr2", "id2">> >> }

VARIABLES discovered, stages, command, pc, idx, stage_outputs, status,
          calls, state_imports_of, rendered, raised

vars == << discovered, stages, command, pc, idx, stage_outputs, status,
           calls, state_imports_of, rendered, raised >>

\* ------------------------------------------------------------------ stages
\* A discovered stage: the attributes the code reads (name, priority) and the
\* position at which the plugin hook yielded it (its identity).
Stage(n, p, i) == [name |-> n, priority |-> p, id |-> i]

\* itertools.chain.from_iterable(pm.hook.nebari_stage()): every flat
\* sequence of at most MaxStages stages.
DiscoveredSeqs ==
  UNION { { [i \in 1..len |-> Stage(f[i][1], f[i][2], i)] :
              f \in [1..len -> Names \X Priorities] } : len \in 0..MaxStages }

\* Variant: an insertion that puts the new element before its equals, so the
\* sort is not stable.
RECURSIVE InsertByPriority_unstable(_, _)
InsertByPriority_unstable(sorted, s) ==
  IF sorted = <<>> THEN << s >>
  ELSE IF sorted[Len(sorted)].priority < s.priority
       THEN Append(sorted, s)
       ELSE Append(InsertByPriority_unstable(
                     SubSeq(sorted, 1, Len(sorted) - 1), s),
                   sorted[Len(sorted)])

\* sorted(stages, key=lambda s: s.priority): a stable insertion, the new
\* element goes after every element whose key is not greater.
RECURSIVE InsertByPriority(_, _)
InsertByPriority(sorted, s) ==
  IF sorted = <<>> THEN << s >>
  ELSE IF sorted[Len(sorted)].priority <= s.priority
       THEN Append(sorted, s)
       ELSE Append(InsertByPriority(SubSeq(sorted, 1, Len(sorted) - 1), s),
                   sorted[Len(sorted)])

\* Variant: the sort in descending priority order.
RECURSIVE SortedByPriority_descending(_)
SortedByPriority_descending(seq) ==
  IF seq = <<>> THEN <<>>
  ELSE LET rest == SortedByPriority_descending(SubSeq(seq, 1, Len(seq) - 1))
           x    == seq[Len(seq)]
           lead == SelectSeq(rest, LAMBDA e : e.priority >= x.priority)
           trail == SelectSeq(rest, LAMBDA e : e.priority < x.priority)
       IN  lead \o << x >> \o trail

RECURSIVE SortedByPriority(_)
SortedByPriority(seq) ==
  IF seq = <<>> THEN <<>>
  ELSE InsertByPriority(SortedByPriority(SubSeq(seq, 1, Len(seq) - 1)),
                        seq[Len(seq)])

\* Variant: the loop appends the stage it keeps instead of inserting it at
\* the front.
RECURSIVE FilterDuplicates_append(_, _, _, _)
FilterDuplicates_append(sorted_stages, k, visited_stage_names, filtered_stages) ==
  IF k = 0 THEN filtered_stages
  ELSE IF sorted_stages[k].name \in visited_stage_names
       THEN FilterDuplicates_append(sorted_stages, k - 1,
                                    visited_stage_names, filtered_stages)
       ELSE FilterDuplicates_append(sorted_stages, k - 1,
                             visited_stage_names \cup {sorted_stages[k].name},
                             Append(filtered_stages, sorted_stages[k]))

\* The loop over reversed(sorted_stages): position k runs from the end
\* of the list to its front.
RECURSIVE FilterDuplicates(_, _, _, _)
FilterDuplicates(sorted_stages, k, visited_stage_names, filtered_stages) ==
  IF k = 0 THEN filtered_stages
  ELSE IF sorted_stages[k].name \in visited_stage_names
       THEN FilterDuplicates(sorted_stages, k - 1, visited_stage_names,
                             filtered_stages)
       ELSE FilterDuplicates(sorted_stages, k - 1,
                             visited_stage_names \cup {sorted_stages[k].name},
                             << sorted_stages[k] >> \o filtered_stages)

NoEntries == [k \in {} |-> 0]

get_available_stages(found) ==
  LET sorted_stages == SortedByPriority(found)
  IN  FilterDuplicates(sorted_stages, Len(sorted_stages), {}, <<>>)

\* ------------------------------------------------------- name resolution
\* Names bound at module level of stages/base.py (its imports, the class and
\* the function it defines) and the builtins its methods use.  A method body
\* that loads a name bound neither locally nor here raises NameError.
ModuleGlobals == {"contextlib", "inspect", "itertools", "pathlib", "Any",
                  "Dict", "List", "Tuple", "terraform",
                  "NebariTerraformState", "NebariStage",
                  "NebariTerraformStage", "get_available_stages"}
Builtins == {"str", "open", "dict", "sorted", "set", "reversed"}

Resolves(name) == name \in ModuleGlobals \cup Builtins

\* First name of a load sequence that does not resolve, "" when all do.
RECURSIVE FirstUnresolved(_)
FirstUnresolved(names) ==
  IF names = <<>> THEN ""
  ELSE IF ~Resolves(Head(names)) THEN Head(names)
       ELSE FirstUnresolved(Tail(names))

\* ----------------------------------------------------------- stage methods
\* self.output_directory, a path given to the stage at construction.
output_directory == << "output_root" >>

\* pathlib.Path("stages") / self.name
stage_prefix(stage) == << "stages", stage.name >>

\* "stages/" + self.name
StageKey(stage) == << "stages/", stage.name >>

\* Base input_vars: the empty mapping, whatever stage_outputs holds.
input_vars(stage, outs) == NoEntries

\* Variant: the import flag and entries are passed whatever state_imports()
\* returned.
DeployConfig_always_import(stage, outs, imports) ==
  [directory  |-> output_directory \o stage_prefix(stage),
   input_vars |-> input_vars(stage, outs),
   terraform_import |-> TRUE,
   state_imports |-> imports]

\* The keyword arguments deploy() builds for terraform.deploy(**deploy_config).
DeployConfig(stage, outs, imports) ==
  LET deploy_config == [directory  |-> output_directory \o stage_prefix(stage),
                        input_vars |-> input_vars(stage, outs)]
  IN  IF imports # <<>>
      THEN [terraform_import |-> TRUE, state_imports |-> imports]
             @@ deploy_config
      ELSE deploy_config

\* Variant: the executor's result is not stored.
deploy_no_store(stage, outs, imports, outcome) ==
  [ call   |-> [method |-> "deploy", fn |-> "terraform.deploy",
                stage  |-> stage.name,
                kwargs |-> DeployConfig(stage, outs, imports),
                result |-> outcome],
    stage_outputs |-> outs,
    raised |-> IF outcome = "raise" THEN "ExecutorError" ELSE "none" ]

\* Variant: an entry for the stage is written before the executor is called,
\* so it stays when the call raises.
deploy_store_on_raise(stage, outs, imports, outcome) ==
  [ call   |-> [method |-> "deploy", fn |-> "terraform.deploy",
                stage  |-> stage.name,
                kwargs |-> DeployConfig(stage, outs, imports),
                result |-> outcome],
    stage_outputs |-> IF outcome = "raise"
                      THEN (StageKey(stage) :> "pending") @@ outs
                      ELSE (StageKey(stage) :> outcome) @@ outs,
    raised |-> IF outcome = "raise" THEN "ExecutorError" ELSE "none" ]

\* Variant: the mapping is rebound to one holding only this stage's entry.
deploy_resets(stage, outs, imports, outcome) ==
  [ call   |-> [method |-> "deploy", fn |-> "terraform.deploy",
                stage  |-> stage.name,
                kwargs |-> DeployConfig(stage, outs, imports),
                result |-> outcome],
    stage_outputs |-> IF outcome = "raise" THEN outs
                      ELSE (StageKey(stage) :> outcome),
    raised |-> IF outcome = "raise" THEN "ExecutorError" ELSE "none" ]

\* deploy(stage_outputs) up to its yield.  imports is what state_imports()
\* returned, outcome what terraform.deploy did: an output mapping, or "raise".
deploy(stage, outs, imports, outcome) ==
  [ call   |-> [method |-> "deploy", fn |-> "terraform.deploy",
                stage  |-> stage.name,
                kwargs |-> DeployConfig(stage, outs, imports),
                result |-> outcome],
    stage_outputs |-> IF outcome = "raise" THEN outs
                      ELSE (StageKey(stage) :> outcome) @@ outs,
    raised |-> IF outcome = "raise" THEN "ExecutorError" ELSE "none" ]

\* Names render() loads that are not attributes of self, in evaluation order.
RenderLoads == << "str", "stage_prefix", "terraform", "os", "filenames",
                  "open" >>

\* Content of the template directory of a stage: path -> text.
template_files(stage) ==
  (<< "template", stage.name, "main.tf" >> :> "main.tf text")

DefinitionPath(stage) ==
  output_directory \o stage_prefix(stage) \o << "_nebari.tf.json" >>

\* The file set render() builds: the generated definition plus every
\* template file.
RenderedFileSet(stage) ==
  (DefinitionPath(stage) :> "tf_render_objects") @@ template_files(stage)

\* NebariTerraformStage.render().
render(stage) ==
  IF FirstUnresolved(RenderLoads) # ""
  THEN [stage |-> stage.name, base |-> TRUE, raised |-> "NameError",
        contents |-> NoEntries]
  ELSE [stage |-> stage.name, base |-> TRUE, raised |-> "none",
        contents |-> RenderedFileSet(stage)]

\* render() of a concrete stage class that overrides the base method.
render_override(stage) ==
  [stage |-> stage.name, base |-> FALSE, raised |-> "none",
   contents |-> RenderedFileSet(stage)]

\* check(stage_outputs) of the base class: `pass`, nothing is raised.
check(stage, outs) == "none"

\* check() of a concrete stage class: raises when its readiness test fails.
check_override(stage, outs, outcome) ==
  IF outcome = "raise" THEN "CheckError" ELSE "none"

\* destroy(stage_outputs, status) up to its yield: the state-only pass.
destroy_enter(stage, outs, outcome) ==
  [ call   |-> [method |-> "destroy", fn |-> "terraform.deploy",
                stage  |-> stage.name,
                kwargs |-> [directory |-> output_directory \o stage_prefix(stage),
                            input_vars |-> input_vars(stage, outs),
                            terraform_init |-> TRUE,
                            terraform_import |-> TRUE,
                            terraform_apply |-> FALSE,
                            terraform_destroy |-> FALSE],
                result |-> outcome],
    stage_outputs |-> IF outcome = "raise" THEN outs
                      ELSE (StageKey(stage) :> outcome) @@ outs,
    raised |-> IF outcome = "raise" THEN "ExecutorError" ELSE "none" ]

\* Names the statement after destroy()'s yield loads, in evaluation order.
DestroyLoads == << "_terraform_destroy", "str", "output_directory",
                   "stage_prefix" >>

\* destroy(stage_outputs, status) after its yield.  ok is the boolean the
\* executor's destroy would return.
destroy_exit(stage, outs, stat, log, ok) ==
  IF FirstUnresolved(DestroyLoads) # ""
  THEN [calls |-> log, status |-> stat, raised |-> "NameError"]
  ELSE [calls |-> Append(log,
                   [method |-> "destroy", fn |-> "_terraform_destroy",
                    stage  |-> stage.name,
                    kwargs |-> [directory |-> output_directory \o stage_prefix(stage),
                                input_vars |-> input_vars(stage, outs),
                                ignore_errors |-> TRUE],
                    result |-> IF ok THEN "True" ELSE "False"]),
        status |-> (StageKey(stage) :> ok) @@ stat,
        raised |-> "none"]

\* ------------------------------------------------------------------- state
NoRender == [stage |-> "", base |-> FALSE, raised |-> "none",
             contents |-> NoEntries]

Init ==
  /\ discovered \in DiscoveredSeqs
  /\ stages = <<>>
  /\ command = "none"
  /\ pc = "discover"
  /\ idx = 0
  /\ stage_outputs = NoEntries
  /\ status = NoEntries
  /\ calls = <<>>
  /\ state_imports_of = NoEntries
  /\ rendered = NoRender
  /\ raised = "none"

\* get_available_stages(): the registry query and the ordering.
Discover ==
  /\ pc = "discover"
  /\ stages' = get_available_stages(discovered)
  /\ pc' = "ordered"
  /\ UNCHANGED << discovered, command, idx, stage_outputs, status, calls,
                  state_imports_of, rendered, raised >>

\* Deploy run: fresh mappings, stages in ascending priority order.
StartDeploy ==
  /\ pc = "ordered"
  /\ command' = "deploy"
  /\ idx' = IF stages = <<>> THEN 0 ELSE 1
  /\ pc' = IF stages = <<>> THEN "done" ELSE "render"
  /\ UNCHANGED << discovered, stages, stage_outputs, status, calls,
                  state_imports_of, rendered, raised >>

\* Destroy run: stages in descending priority order.
StartDestroy ==
  /\ pc = "ordered"
  /\ command' = "destroy"
  /\ idx' = Len(stages)
  /\ pc' = IF stages = <<>> THEN "done" ELSE "destroy_enter"
  /\ UNCHANGED << discovered, stages, stage_outputs, status, calls,
                  state_imports_of, rendered, raised >>

Render ==
  /\ pc = "render"
  /\ \E overridden \in BOOLEAN :
       LET r == IF overridden THEN render_override(stages[idx])
                ELSE render(stages[idx])
       IN  /\ rendered' = r
           /\ raised' = r.raised
           /\ pc' = IF r.raised = "none" THEN "deploy" ELSE "failed"
  /\ UNCHANGED << discovered, stages, command, idx, stage_outputs, status,
                  calls, state_imports_of >>

Deploy ==
  /\ pc = "deploy"
  /\ \E imports \in ImportLists, outcome \in Outputs \cup {"raise"} :
       LET r == deploy(stages[idx], stage_outputs, imports, outcome)
       IN  /\ state_imports_of' =
                (StageKey(stages[idx]) :> imports) @@ state_imports_of
           /\ calls' = Append(calls, r.call)
           /\ stage_outputs' = r.stage_outputs
           /\ raised' = r.raised
           /\ pc' = IF r.raised = "none" THEN "check" ELSE "failed"
  /\ UNCHANGED << discovered, stages, command, idx, status, rendered >>

Check ==
  /\ pc = "check"
  /\ \E outcome \in {"base", "pass", "raise"} :
       LET r == IF outcome = "base" THEN check(stages[idx], stage_outputs)
                ELSE check_override(stages[idx], stage_outputs, outcome)
       IN  /\ raised' = r
           /\ IF r # "none"
              THEN pc' = "failed" /\ idx' = idx
              ELSE IF idx = Len(stages)
                   THEN pc' = "done" /\ idx' = idx
                   ELSE pc' = "render" /\ idx' = idx + 1
  /\ UNCHANGED << discovered, stages, command, stage_outputs, status, calls,
                  state_imports_of, rendered >>

DestroyEnter ==
  /\ pc = "destroy_enter"
  /\ \E outcome \in Outputs \cup {"raise"} :
       LET r == destroy_enter(stages[idx], stage_outputs, outcome)
       IN  /\ calls' = Append(calls, r.call)
           /\ stage_outputs' = r.stage_outputs
           /\ raised' = r.raised
           /\ pc' = IF r.raised = "none" THEN "destroy_yield" ELSE "failed"
  /\ UNCHANGED << discovered, stages, command, idx, status,
                  state_imports_of, rendered >>

\* The caller's block, run while destroy() is suspended at its yield.
DestroyYield ==
  /\ pc = "destroy_yield"
  /\ pc' = "destroy_exit"
  /\ UNCHANGED << discovered, stages, command, idx, stage_outputs, status,
                  calls, state_imports_of, rendered, raised >>

DestroyExit ==
  /\ pc = "destroy_exit"
  /\ \E ok \in BOOLEAN :
       LET r == destroy_exit(stages[idx], stage_outputs, status, calls, ok)
       IN  /\ calls' = r.calls
           /\ status' = r.status
           /\ raised' = r.raised
           /\ IF r.raised # "none"
              THEN pc' = "failed" /\ idx' = idx
              ELSE IF idx = 1
                   THEN pc' = "done" /\ idx' = 0
                   ELSE pc' = "destroy_enter" /\ idx' = idx - 1
  /\ UNCHANGED << discovered, stages, command, stage_outputs,
                  state_imports_of, rendered >>

Next ==
  \/ Discover
  \/ StartDeploy
  \/ StartDestroy
  \/ Render
  \/ Deploy
  \/ Check
  \/ DestroyEnter
  \/ DestroyYield
  \/ DestroyExit

Spec == Init /\ [][Next]_vars

\* ------------------------------------------------------- helper predicates
NamesOf(seq) == { seq[i].name : i \in DOMAIN seq }

Ordered == pc # "discover"

\* Calls the deploy() method of the stage named n made to the executor.
DeployCallsOf(n) ==
  { c \in DOMAIN calls : calls[c].method = "deploy" /\ calls[c].stage = n }

\* stage_outputs holds, for the stage at position i, what its apply returned.
HoldsApplyOutput(i) ==
  /\ StageKey(stages[i]) \in DOMAIN stage_outputs
  /\ Cardinality(DeployCallsOf(stages[i].name)) = 1
  /\ \A c \in DeployCallsOf(stages[i].name) :
       /\ calls[c].result # "raise"
       /\ calls[c].result = stage_outputs[StageKey(stages[i])]

\* ---------------------------------------------------------------- claims

\* C1: the list get_available_stages() returns has exactly one stage for
\* each distinct discovered name, the retained stage is one of the discovered
\* ones, and its priority is the maximum among the discovered stages of that
\* name.
C1_OnePerNameMaxPriority ==
  Ordered =>
    /\ NamesOf(stages) = NamesOf(discovered)
    /\ \A i, j \in DOMAIN stages : stages[i].name = stages[j].name => i = j
    /\ \A i \in DOMAIN stages :
         /\ \E k \in DOMAIN discovered : discovered[k] = stages[i]
         /\ \A k \in DOMAIN discovered :
              discovered[k].name = stages[i].name
                => discovered[k].priority <= stages[i].priority

\* The example of the claim: infra(10), infra(5), kubernetes(20).
C1_Witness ==
  /\ Ordered
  /\ discovered = << Stage("infra", 10, 1), Stage("infra", 5, 2),
                     Stage("kubernetes", 20, 3) >>
  /\ stages = << Stage("infra", 10, 1), Stage("kubernetes", 20, 3) >>

\* C2: the list get_available_stages() returns is in non-decreasing priority
\* order, and zero discovered stages give the empty list.
C2_SortedAscending ==
  Ordered =>
    /\ \A i, j \in DOMAIN stages :
         i < j => stages[i].priority <= stages[j].priority
    /\ discovered = <<>> => stages = <<>>

\* Duplicates were removed from an input that was not in priority order.
C2_Witness ==
  /\ Ordered
  /\ Len(stages) = 2
  /\ Len(discovered) = 3
  /\ discovered[1].priority > discovered[3].priority
  /\ stages[1].priority < stages[2].priority

\* C3: in a deploy run, when the deploy of a stage is invoked, the entry of
\* every stage ordered before it is present in stage_outputs and equals the
\* output the executor returned for that stage.
C3_EarlierOutputsVisible ==
  (command = "deploy" /\ pc = "deploy") =>
    \A i \in 1..(idx - 1) : HoldsApplyOutput(i)

\* The third stage is about to deploy; the two before it returned different
\* outputs.
C3_Witness ==
  /\ command = "deploy"
  /\ pc = "deploy"
  /\ idx = 3
  /\ stage_outputs[StageKey(stages[1])] = "outA"
  /\ stage_outputs[StageKey(stages[2])] = "outB"

\* C5: in a deploy run, when the executor's apply of the stage at position k
\* raises, the error leaves deploy, stage_outputs holds exactly the entries
\* of the k-1 earlier stages with the values their applies returned, and
\* nothing of a later stage has run or will run.
C5_FailFastKeepsEarlier ==
  /\ (command = "deploy" /\ calls # <<>> /\ calls[Len(calls)].result = "raise")
       => (pc = "failed" /\ raised = "ExecutorError")
  /\ (command = "deploy" /\ pc = "failed" /\ raised = "ExecutorError") =>
       /\ DOMAIN stage_outputs = { StageKey(stages[i]) : i \in 1..(idx - 1) }
       /\ \A i \in 1..(idx - 1) : HoldsApplyOutput(i)
       /\ \A c \in DOMAIN calls :
            \E i \in 1..idx : calls[c].stage = stages[i].name
       /\ rendered.stage = stages[idx].name
       /\ ~ENABLED Next

\* The apply of the third stage raised after two stages deployed.
C5_Witness ==
  /\ command = "deploy"
  /\ pc = "failed"
  /\ raised = "ExecutorError"
  /\ idx = 3
  /\ Cardinality(DOMAIN stage_outputs) = 2

\* C6: during a deploy run every step leaves each existing entry of
\* stage_outputs in place with its value, and a deploy changes no key other
\* than "stages/<name>" of the stage it runs for.
C6_DeployWritesOwnKeyOnly ==
  [][ command = "deploy" =>
        /\ \A k \in DOMAIN stage_outputs :
             k \in DOMAIN stage_outputs' /\ stage_outputs'[k] = stage_outputs[k]
        /\ \A k \in DOMAIN stage_outputs' :
             k \in DOMAIN stage_outputs
               \/ (pc = "deploy" /\ k = StageKey(stages[idx])) ]_vars

\* A deploy run of three stages completed.
C6_Witness ==
  /\ command = "deploy"
  /\ pc = "done"
  /\ Cardinality(DOMAIN stage_outputs) = 3

\* C8: each deploy makes one executor call; it carries the import flag, set,
\* together with exactly the sequence state_imports() returned when that
\* sequence is non-empty, and neither of the two when it is empty.
C8_ImportIffStateImports ==
  \A c \in DOMAIN calls :
    calls[c].method = "deploy" =>
      LET imports == state_imports_of[<< "stages/", calls[c].stage >>]
          kwargs  == calls[c].kwargs
      IN  /\ Cardinality(DeployCallsOf(calls[c].stage)) = 1
          /\ ("terraform_import" \in DOMAIN kwargs) <=> (imports # <<>>)
          /\ ("state_imports" \in DOMAIN kwargs) <=> (imports # <<>>)
          /\ imports # <<>> =>
               /\ kwargs.terraform_import = TRUE
               /\ kwargs.state_imports = imports

\* One deploy ran with imports, the next one without.
C8_Witness ==
  /\ Len(calls) = 2
  /\ calls[1].method = "deploy"
  /\ calls[2].method = "deploy"
  /\ calls[1].kwargs.directory = << "output_root", "stages", calls[1].stage >>
  /\ "state_imports" \in DOMAIN calls[1].kwargs
  /\ Len(calls[1].kwargs.state_imports) = 2
  /\ "state_imports" \notin DOMAIN calls[2].kwargs

\* C9: retained stages of equal priority keep their discovery order, and
\* among the discovered stages that share a name and that name's maximum
\* priority exactly one is retained, the one discovered last.
C9_TiesByDiscoveryOrder ==
  Ordered =>
    /\ \A i, j \in DOMAIN stages :
         (i < j /\ stages[i].priority = stages[j].priority)
           => stages[i].id < stages[j].id
    /\ \A n \in NamesOf(discovered) :
         Cardinality({ i \in DOMAIN stages : stages[i].name = n }) = 1
    /\ \A i \in DOMAIN stages : \A k \in DOMAIN discovered :
         (discovered[k].name = stages[i].name
            /\ discovered[k].priority = stages[i].priority)
           => k <= stages[i].id

\* Both kinds of tie at once: infra is discovered twice at priority 10, and
\* kubernetes has priority 10 too.
C9_Witness ==
  /\ Ordered
  /\ discovered = << Stage("infra", 10, 1), Stage("kubernetes", 10, 2),
                     Stage("infra", 10, 3) >>
  /\ stages = << Stage("kubernetes", 10, 2), Stage("infra", 10, 3) >>

\* C4: when a destroy run ends, whatever the executor's destroy calls did,
\* status holds a boolean under "stages/<name>" for every stage of the
\* ordered list and no error was raised.
C4_DestroyStatusComplete ==
  (command = "destroy" /\ pc \in {"done", "failed"}
     /\ raised # "ExecutorError") =>
    /\ raised = "none"
    /\ \A i \in DOMAIN stages :
         /\ StageKey(stages[i]) \in DOMAIN status
         /\ status[StageKey(stages[i])] \in BOOLEAN

\* Positions of the stages whose destroy() has run past its yield to its end.
DestroyExited ==
  IF command # "destroy" THEN {}
  ELSE { i \in DOMAIN stages :
           \/ i > idx
           \/ pc = "done"
           \/ (i = idx /\ pc = "failed" /\ raised # "ExecutorError") }

\* C7: destroy makes the state-only executor call, then yields, then calls
\* the executor's destroy with ignore_errors set, then stores its boolean
\* under status["stages/<name>"]; no destroy call precedes the yield.
C7_DestroyStepOrder ==
  /\ (command = "destroy" /\ pc \in {"destroy_yield", "destroy_exit"}) =>
       /\ calls[Len(calls)].fn = "terraform.deploy"
       /\ calls[Len(calls)].stage = stages[idx].name
       /\ calls[Len(calls)].kwargs.terraform_init
       /\ calls[Len(calls)].kwargs.terraform_import
       /\ ~calls[Len(calls)].kwargs.terraform_apply
       /\ ~calls[Len(calls)].kwargs.terraform_destroy
       /\ StageKey(stages[idx]) \notin DOMAIN status
  /\ \A i \in DestroyExited :
       /\ \E c \in DOMAIN calls :
            /\ c > 1
            /\ calls[c].fn = "_terraform_destroy"
            /\ calls[c].stage = stages[i].name
            /\ calls[c].kwargs.ignore_errors
            /\ calls[c - 1].fn = "terraform.deploy"
            /\ calls[c - 1].stage = stages[i].name
       /\ StageKey(stages[i]) \in DOMAIN status

\* C10: the base render() of a stage returns a file set that holds the
\* generated definition under <output_root>/stages/<name>/_nebari.tf.json
\* and, for the rest, the template files verbatim; stage_outputs is not
\* touched.
C10_RenderHasDefinition ==
  (command = "deploy" /\ rendered.base /\ rendered.stage = stages[idx].name) =>
    /\ rendered.raised = "none"
    /\ DefinitionPath(stages[idx]) \in DOMAIN rendered.contents
    /\ \A f \in DOMAIN rendered.contents \ {DefinitionPath(stages[idx])} :
         /\ f \in DOMAIN template_files(stages[idx])
         /\ rendered.contents[f] = template_files(stages[idx])[f]
====
